---- MODULE Spec2Model ----
(***************************************************************************)
(* Model of interactive.py: the menu loop (main), the preset selector      *)
(* (get_encoding_preset), the batch runner (convert_rar_to_mp3) and the    *)
(* archive processor (process_single_rar), over a small filesystem.        *)
(* File names are sequences of one-character strings, so that the name     *)
(* derivation (str.replace, str.strip, Path.stem, Path.suffix) is computed *)
(* the way Python computes it.                                             *)
(***************************************************************************)
EXTENDS Integers, Sequences, FiniteSets, TLC

VARIABLES input_directory, output_directory, encoding_preset,
          choice, pc, console,
          dirs, subdirs, mp3s, temp,
          rar_files, idx, flac_files, fidx,
          handed, failed, jobTrace,
          rar_name, output_dir_name, rederived, runs

vars == <<input_directory, output_directory, encoding_preset,
          choice, pc, console,
          dirs, subdirs, mp3s, temp,
          rar_files, idx, flac_files, fidx,
          handed, failed, jobTrace,
          rar_name, output_dir_name, rederived, runs>>

config == <<input_directory, output_directory, encoding_preset>>

filesystem == <<dirs, subdirs, mp3s, temp>>

----------------------------------------------------------------------------
(* Bounds *)

\* number of conversions (menu choice 4) started in one session
MaxRuns == 1

\* number of tokens concatenated into an archive base name (naming spec)
MaxTokens == 3

----------------------------------------------------------------------------
(* Strings *)

UpperAlpha == <<"A","B","C","D","E","F","G","H","I","J","K","L","M",
                "N","O","P","Q","R","S","T","U","V","W","X","Y","Z">>

LowerAlpha == <<"a","b","c","d","e","f","g","h","i","j","k","l","m",
                "n","o","p","q","r","s","t","u","v","w","x","y","z">>

\* str.lower on one character
LowerChar(c) ==
    IF \E i \in 1..26 : UpperAlpha[i] = c
    THEN LowerAlpha[CHOOSE i \in 1..26 : UpperAlpha[i] = c]
    ELSE c

\* str.lower
Lower(s) == [i \in 1..Len(s) |-> LowerChar(s[i])]

\* pat occurs in s at position i
MatchAt(s, pat, i) ==
    /\ i + Len(pat) - 1 <= Len(s)
    /\ \A j \in 1..Len(pat) : s[i + j - 1] = pat[j]

Contains(s, pat) == \E i \in 1..Len(s) : MatchAt(s, pat, i)

EndsWith(s, pat) ==
    /\ Len(pat) <= Len(s)
    /\ MatchAt(s, pat, Len(s) - Len(pat) + 1)

\* str.replace(old, new) scanning from position i: leftmost occurrences,
\* not overlapping, in a single pass (replaced text is not scanned again)
RECURSIVE ReplaceFrom(_, _, _, _)
ReplaceFrom(s, old, new, i) ==
    IF i > Len(s) THEN <<>>
    ELSE IF MatchAt(s, old, i)
         THEN new \o ReplaceFrom(s, old, new, i + Len(old))
         ELSE <<s[i]>> \o ReplaceFrom(s, old, new, i + 1)

\* str.replace(old, new, 1): the first occurrence only
Replace_First(s, old, new) ==
    IF \E i \in 1..Len(s) : MatchAt(s, old, i)
    THEN LET k == CHOOSE i \in 1..Len(s) :
                     /\ MatchAt(s, old, i)
                     /\ \A j \in 1..(i - 1) : ~MatchAt(s, old, j)
         IN  SubSeq(s, 1, k - 1) \o new \o SubSeq(s, k + Len(old), Len(s))
    ELSE s

Replace(s, old, new) == ReplaceFrom(s, old, new, 1)

IsSpace(c) == c = " "

\* str.strip(): whitespace removed at both ends only
Strip(s) ==
    LET nonsp == {i \in 1..Len(s) : ~IsSpace(s[i])}
    IN  IF nonsp = {} THEN <<>>
        ELSE LET lo == CHOOSE i \in nonsp : \A j \in nonsp : i <= j
                 hi == CHOOSE i \in nonsp : \A j \in nonsp : i >= j
             IN  SubSeq(s, lo, hi)

\* position of the last "." of a file name that starts a suffix, 0 if none
\* (a leading dot or a trailing dot starts no suffix)
DotIndex(name) ==
    LET dots == {i \in 2..(Len(name) - 1) : name[i] = "."}
    IN  IF dots = {} THEN 0
        ELSE CHOOSE i \in dots : \A j \in dots : i >= j

\* Path.suffix
Suffix(name) ==
    IF DotIndex(name) = 0 THEN <<>>
    ELSE SubSeq(name, DotIndex(name), Len(name))

\* Path.stem
Stem(name) ==
    IF DotIndex(name) = 0 THEN name
    ELSE SubSeq(name, 1, DotIndex(name) - 1)

\* Path.with_suffix(suffix).name
WithSuffix(name, suffix) == Stem(name) \o suffix

S_FLAC == <<"F","L","A","C">>
S_flac == <<"f","l","a","c">>
S_16 == <<"1","6">>
S_dot_rar == <<".","r","a","r">>
S_dot_flac == <<".","f","l","a","c">>
S_dot_mp3 == <<".","m","p","3">>
S_temp_extract == <<"_","t","e","m","p","_","e","x","t","r","a","c","t">>

----------------------------------------------------------------------------
(* Presets *)

Preset_V0 == [name |-> <<"M","P","3","-","v","0">>,
              quality_flag |-> "-q:a", quality_value |-> "0"]

Preset_V2 == [name |-> <<"M","P","3","-","v","2">>,
              quality_flag |-> "-q:a", quality_value |-> "2"]

Preset_320 == [name |-> <<"M","P","3","-","3","2","0","k","b","p","s",
                          "-","C","B","R">>,
               quality_flag |-> "-b:a", quality_value |-> "320k"]

\* a table whose third entry carries the flag of the first two
presets_SameFlag == [c \in {"1", "2", "3"} |->
               IF c = "1" THEN Preset_V0
               ELSE IF c = "2" THEN Preset_V2
               ELSE [Preset_320 EXCEPT !.quality_flag = "-q:a"]]

\* the presets table of get_encoding_preset
presets == [c \in {"1", "2", "3"} |->
               IF c = "1" THEN Preset_V0
               ELSE IF c = "2" THEN Preset_V2 ELSE Preset_320]

\* output_dir_name of process_single_rar: the chain of method calls of
\* line 42, each intermediate string being a value of its own
DeriveName(stem, preset) ==
    CHOOSE result \in
        {Strip(s3) : s3 \in
           {Replace(s2, S_16, <<>>) : s2 \in
              {Replace(s1, S_flac, preset.name) : s1 \in
                 {Replace(s0, S_FLAC, preset.name) : s0 \in {stem}}}}} : TRUE

----------------------------------------------------------------------------
(* The filesystem the session runs on *)

N_a_rar == <<"a",".","r","a","r">>
N_a_RAR == <<"a",".","R","A","R">>
N_n_txt == <<"n",".","t","x","t">>
N_album_rar == <<"A","r","t","i","s","t"," ","-"," ","A","l","b","u","m",
                 " ","[","F","L","A","C"," ","1","6","]",".","r","a","r">>
N_b_Rar == <<"b",".","R","a","r">>
N_r_txt == <<"r",".","t","x","t">>
N_x_rar == <<"x",".","r","a","r">>
N_1_flac == <<"1",".","f","l","a","c">>
N_2_flac == <<"2",".","f","l","a","c">>
N_3_FLAC == <<"3",".","F","L","A","C">>
N_track_flac == <<"0","1"," ","T","r","a","c","k",".","f","l","a","c">>

\* directories and regular files that exist when the session starts
InitialDirs == {"./", "music", "empty"}

RegularFiles == {"n.txt"}

\* what the user may type at the two directory prompts
InputChoices == {"./", "music", "empty", "new", "n.txt"}

OutputChoices == {"./", "new/out", "n.txt"}

\* the directories Path.mkdir(parents=True) has to create for a path
WithParents(p) == IF p = "new/out" THEN {"new", "new/out"} ELSE {p}

\* the entries a directory holds when the session starts
Entries(d) ==
    IF d = "./"
    THEN {[name |-> N_a_rar, isFile |-> TRUE],
          [name |-> N_a_RAR, isFile |-> TRUE],
          [name |-> N_n_txt, isFile |-> TRUE]}
    ELSE IF d = "music"
    THEN {[name |-> N_album_rar, isFile |-> TRUE],
          [name |-> N_b_Rar, isFile |-> TRUE]}
    ELSE IF d = "empty"
    THEN {[name |-> N_r_txt, isFile |-> TRUE],
          [name |-> N_x_rar, isFile |-> FALSE]}
    ELSE {}

\* the files an archive holds, each as <<subdirectory, file name>>
Content(d, name) ==
    IF d = "./" /\ name = N_a_rar
    THEN {<<"cd1", N_1_flac>>, <<"cd2", N_1_flac>>}
    ELSE IF d = "./" /\ name = N_a_RAR
    THEN {<<"", N_2_flac>>}
    ELSE IF d = "music" /\ name = N_album_rar
    THEN {<<"", N_track_flac>>}
    ELSE IF d = "music" /\ name = N_b_Rar
    THEN {<<"", N_3_FLAC>>}
    ELSE {}

\* the extraction workspaces the session can create: <<directory, stem>>
Workspaces ==
    UNION {{<<d, Stem(e.name)>> : e \in Entries(d)} : d \in InitialDirs}

\* a workspace path at which no directory exists
NoDir == [exists |-> FALSE, files |-> {}]

\* the entries of directory d in the current filesystem
Listing(d, t, sd, m) ==
    Entries(d)
    \cup {[name |-> k[2] \o S_temp_extract, isFile |-> FALSE] :
             k \in {w \in Workspaces : w[1] = d /\ t[w].exists}}
    \cup {[name |-> x[2], isFile |-> FALSE] :
             x \in {y \in sd : y[1] = d /\ y[2] # <<>>}}
    \cup {[name |-> x[3], isFile |-> TRUE] :
             x \in {y \in m : y[1] = d /\ y[2] = <<>>}}

\* Path.is_dir
IsDir_Any(p, ds) == TRUE

IsDir(p, ds) == p \in ds

\* all orders in which a set can be enumerated
Orders(S) ==
    {s \in [1..Cardinality(S) -> S] :
        \A i, j \in 1..Cardinality(S) : i # j => s[i] # s[j]}

\* line 18: the direct entries that are files with a .rar suffix in any case
Qualifying(listing) ==
    {e \in listing : e.isFile /\ Lower(Suffix(e.name)) = S_dot_rar}

\* line 60: rglob('*.flac') over the files of a workspace
Discovered(files) == {f \in files : EndsWith(f[2], S_dot_flac)}

----------------------------------------------------------------------------
(* Initial state: main, lines 126-128 *)

Init ==
    /\ input_directory = "./"
    /\ output_directory = "./"
    /\ encoding_preset = Preset_V0
    /\ choice = ""
    /\ pc = "menu"
    /\ console = ""
    /\ dirs = InitialDirs
    /\ subdirs = {}
    /\ mp3s = {}
    /\ temp = [w \in Workspaces |-> NoDir]
    /\ rar_files = <<>>
    /\ idx = 0
    /\ flac_files = <<>>
    /\ fidx = 0
    /\ handed = <<>>
    /\ failed = {}
    /\ jobTrace = <<>>
    /\ rar_name = <<>>
    /\ output_dir_name = <<>>
    /\ rederived = <<>>
    /\ runs = 0

batch == <<rar_files, idx, handed, failed>>

job == <<flac_files, fidx, jobTrace, rar_name, output_dir_name>>

\* the locals of process_single_rar are gone when it returns or raises
JobOver ==
    /\ flac_files' = <<>>
    /\ fidx' = 0
    /\ jobTrace' = <<>>
    /\ rar_name' = <<>>
    /\ output_dir_name' = <<>>

\* the locals of convert_rar_to_mp3 are gone when it returns
BatchOver ==
    /\ rar_files' = <<>>
    /\ idx' = 0
    /\ handed' = <<>>
    /\ failed' = {}

----------------------------------------------------------------------------
(* Menu Controller: main, lines 130-157 *)

MenuKeys == {"1", "2", "3", "4", "5", "6"}

\* choice '1', lines 140-145
SetInput ==
    /\ pc = "menu"
    /\ choice' = "1"
    /\ \E new_dir \in InputChoices :
          IF IsDir(new_dir, dirs)
          THEN input_directory' = new_dir /\ console' = ""
          ELSE console' = "invalid_dir" /\ UNCHANGED input_directory
    /\ UNCHANGED <<output_directory, encoding_preset, pc, filesystem,
                   batch, job, rederived, runs>>

\* choice '2', lines 146-148
SetOutput ==
    /\ pc = "menu"
    /\ choice' = "2"
    /\ \E new_dir \in OutputChoices : output_directory' = new_dir
    /\ console' = ""
    /\ UNCHANGED <<input_directory, encoding_preset, pc, filesystem, batch,
                   job, rederived, runs>>

\* choice '3', line 150: enters get_encoding_preset
SetPreset ==
    /\ pc = "menu"
    /\ choice' = "3"
    /\ pc' = "preset"
    /\ console' = ""
    /\ UNCHANGED <<config, filesystem, batch, job,
                   rederived, runs>>

PresetKeys == {"1", "2", "3", "4"}

\* one round of the prompt loop of get_encoding_preset, lines 111-120
get_encoding_preset ==
    /\ pc = "preset"
    /\ \E c \in PresetKeys :
          IF c \in DOMAIN presets
          THEN /\ encoding_preset' = presets[c]
               /\ pc' = "menu"
               /\ console' = ""
          ELSE /\ console' = "invalid_preset"
               /\ UNCHANGED <<encoding_preset, pc>>
    /\ UNCHANGED <<input_directory, output_directory, choice,
                   filesystem, batch, job, rederived, runs>>

\* choice '5', lines 153-155
Exit ==
    /\ pc = "menu"
    /\ choice' = "5"
    /\ pc' = "exited"
    /\ console' = "exiting"
    /\ UNCHANGED <<config, filesystem, batch, job, rederived, runs>>

\* any other key, lines 156-157
InvalidChoice ==
    /\ pc = "menu"
    /\ \E c \in MenuKeys \ {"1", "2", "3", "4", "5"} : choice' = c
    /\ console' = "invalid_choice"
    /\ UNCHANGED <<config, pc, filesystem, batch, job,
                   rederived, runs>>

----------------------------------------------------------------------------
(* Batch Runner: convert_rar_to_mp3 *)

\* Path.mkdir(exist_ok=True, parents=True), line 16
MkdirParents(p, ds) == ds \cup WithParents(p)

\* a regular file named name exists in directory d
FileAt(d, name) ==
    \E e \in Listing(d, temp, subdirs, mp3s) : e.name = name /\ e.isFile

\* the workspace of the archive in hand, line 45
WorkspaceKey == <<input_directory, rar_name>>

\* choice '4' (line 152) and lines 12-26 of convert_rar_to_mp3
Run ==
    /\ pc = "menu"
    /\ runs < MaxRuns
    /\ choice' = "4"
    /\ runs' = runs + 1
    /\ IF output_directory \in RegularFiles
       THEN \* mkdir raises FileExistsError, which nothing catches
            /\ pc' = "crashed"
            /\ console' = "traceback"
            /\ UNCHANGED <<filesystem, batch>>
       ELSE /\ dirs' = MkdirParents(output_directory, dirs)
            /\ UNCHANGED <<subdirs, mp3s, temp>>
            /\ LET found == Qualifying(Listing(input_directory, temp,
                                               subdirs, mp3s))
               IN  IF found = {}
                   THEN /\ console' = "no_rar"
                        /\ pc' = "menu"
                        /\ UNCHANGED batch
                   ELSE /\ \E order \in Orders(found) : rar_files' = order
                        /\ idx' = 1
                        /\ handed' = <<>>
                        /\ failed' = {}
                        /\ console' = "found"
                        /\ pc' = "loop"
    /\ UNCHANGED <<config, job, rederived>>

Step(name) == [step |-> name, arg |-> <<>>]

\* line 28: the for loop over rar_files has run out
BatchLoopDone_Early(i, n) == i >= n

BatchLoopDone(i, n) == i > n

\* lines 28-30 and 41-46: the next archive is handed to process_single_rar,
\* which derives the names and creates the workspace
StartJob ==
    /\ pc = "loop"
    /\ ~BatchLoopDone(idx, Len(rar_files))
    /\ \E rf \in {rar_files[idx]} : \E stem \in {Stem(rf.name)} :
           /\ handed' = Append(handed, rf)
           /\ rar_name' = stem
           /\ output_dir_name' = DeriveName(stem, encoding_preset)
           /\ flac_files' = <<>>
           /\ fidx' = 0
           /\ IF FileAt(input_directory, stem \o S_temp_extract)
              THEN /\ jobTrace' = <<Step("raise")>>
                   /\ pc' = "raised"
                   /\ UNCHANGED temp
              ELSE /\ jobTrace' = <<Step("mkdir_temp")>>
                   /\ pc' = "extract"
                   /\ temp' = [temp EXCEPT
                                 ![<<input_directory, stem>>].exists = TRUE]
    /\ console' = ""
    /\ UNCHANGED <<config, choice, dirs, subdirs, mp3s, rar_files, idx,
                   failed, rederived, runs>>

\* line 35: the loop is over
BatchDone ==
    /\ pc = "loop"
    /\ BatchLoopDone(idx, Len(rar_files))
    /\ console' = "all_processed"
    /\ pc' = "menu"
    /\ BatchOver
    /\ UNCHANGED <<config, choice, filesystem, job, rederived, runs>>

\* line 33: where the loop goes after a failed archive
AfterError_Break(i, n) == n + 1

AfterError(i, n) == i + 1

\* lines 31-33: the failure of one archive is caught and reported
Catch ==
    /\ pc = "raised"
    /\ console' = "error"
    /\ idx' = AfterError(idx, Len(rar_files))
    /\ pc' = "loop"
    /\ JobOver
    /\ failed' = failed \cup {idx}
    /\ UNCHANGED <<config, choice, filesystem, rar_files, handed,
                   rederived, runs>>

\* line 30 returns normally: the loop goes on to the next archive
Return ==
    /\ pc = "returned"
    /\ idx' = idx + 1
    /\ pc' = "loop"
    /\ JobOver
    /\ console' = ""
    /\ UNCHANGED <<config, choice, filesystem, rar_files,
                   handed, failed, rederived, runs>>

----------------------------------------------------------------------------
(* Archive Processor: process_single_rar *)

\* shutil.rmtree, lines 64 and 97
Rmtree_Keep(t, key) == t

Rmtree(t, key) == [t EXCEPT ![key] = NoDir]

\* lines 55-57: where a failed extraction leaves the job
AfterExtractError_Ignore == "discover"

AfterExtractError == "raised"

\* lines 48-57: unrar x; a failing run may have written part of the archive
Extract ==
    /\ pc = "extract"
    /\ \E ok \in BOOLEAN :
       \E written \in SUBSET Content(input_directory, rar_files[idx].name) :
          /\ ok => written = Content(input_directory, rar_files[idx].name)
          /\ temp' = [temp EXCEPT ![WorkspaceKey].files = @ \cup written]
          /\ IF ok
             THEN /\ jobTrace' = Append(jobTrace, Step("extract"))
                  /\ pc' = "discover"
                  /\ console' = "extracting"
             ELSE /\ jobTrace' = jobTrace \o <<Step("extract"), Step("raise")>>
                  /\ pc' = AfterExtractError
                  /\ console' = "extraction_failed"
    /\ UNCHANGED <<config, choice, dirs, subdirs, mp3s, batch,
                   flac_files, fidx, rar_name, output_dir_name, rederived,
                   runs>>

\* lines 60-69: audio discovery, then either the early return or the
\* creation of the output subdirectory
Discover ==
    /\ pc = "discover"
    /\ \E order \in Orders(Discovered(temp[WorkspaceKey].files)) :
          /\ flac_files' = order
          /\ IF Len(order) = 0
             THEN /\ console' = "no_flac"
                  /\ temp' = Rmtree(temp, WorkspaceKey)
                  /\ jobTrace' = jobTrace \o <<Step("discover"), Step("rmtree")>>
                  /\ pc' = "returned"
                  /\ UNCHANGED <<subdirs, fidx>>
             ELSE IF FileAt(output_directory, output_dir_name)
             THEN /\ jobTrace' = jobTrace \o <<Step("discover"), Step("raise")>>
                  /\ pc' = "raised"
                  /\ console' = ""
                  /\ UNCHANGED <<temp, subdirs, fidx>>
             ELSE /\ subdirs' = subdirs \cup
                        {<<output_directory, output_dir_name>>}
                  /\ jobTrace' = jobTrace \o <<Step("discover"), Step("mkdir_out")>>
                  /\ fidx' = 1
                  /\ pc' = "transcode"
                  /\ console' = "converting"
                  /\ UNCHANGED temp
    /\ UNCHANGED <<config, choice, dirs, mp3s, batch, rar_name,
                   output_dir_name, rederived, runs>>

\* lines 78-87: the ffmpeg command for one audio file
ffmpeg_command(flac_file) ==
    [input |-> flac_file,
     quality_flag |-> encoding_preset.quality_flag,
     quality_value |-> encoding_preset.quality_value,
     output |-> <<output_directory, output_dir_name,
                  WithSuffix(flac_file[2], S_dot_mp3)>>]

\* lines 91-93: where a failed transcode leaves the job
AfterTranscodeError_Skip(i) == [pc |-> "transcode", fidx |-> i + 1]

AfterTranscodeError(i) == [pc |-> "raised", fidx |-> i]

\* line 73: the for loop over flac_files has run out
LoopDone_Early(i, n) == i >= n

LoopDone(i, n) == i > n

\* lines 73-93: one iteration of the transcode loop
Transcode ==
    /\ pc = "transcode"
    /\ ~LoopDone(fidx, Len(flac_files))
    /\ LET cmd == ffmpeg_command(flac_files[fidx])
       IN  \E ok \in BOOLEAN :
              IF ok
              THEN /\ mp3s' = mp3s \cup {cmd.output}
                   /\ jobTrace' = Append(jobTrace,
                                    [step |-> "transcode", arg |-> cmd])
                   /\ fidx' = fidx + 1
                   /\ console' = ""
                   /\ UNCHANGED pc
              ELSE /\ jobTrace' = IF AfterTranscodeError(fidx).pc = "raised"
                       THEN jobTrace \o <<[step |-> "transcode", arg |-> cmd],
                                          Step("raise")>>
                       ELSE Append(jobTrace,
                                   [step |-> "transcode", arg |-> cmd])
                   /\ console' = "conversion_failed"
                   /\ pc' = AfterTranscodeError(fidx).pc
                   /\ fidx' = AfterTranscodeError(fidx).fidx
                   /\ UNCHANGED mp3s
    /\ UNCHANGED <<config, choice, dirs, subdirs, temp, batch,
                   flac_files, rar_name, output_dir_name, rederived, runs>>

\* lines 95-99: the workspace is removed after the last transcode
Cleanup ==
    /\ pc = "transcode"
    /\ LoopDone(fidx, Len(flac_files))
    /\ temp' = Rmtree(temp, WorkspaceKey)
    /\ jobTrace' = Append(jobTrace, Step("rmtree"))
    /\ console' = "success"
    /\ pc' = "returned"
    /\ UNCHANGED <<config, choice, dirs, subdirs, mp3s, batch,
                   flac_files, fidx, rar_name, output_dir_name, rederived,
                   runs>>

----------------------------------------------------------------------------
(* The session *)

Next ==
    \/ SetInput
    \/ SetOutput
    \/ SetPreset
    \/ get_encoding_preset
    \/ Run
    \/ Exit
    \/ InvalidChoice
    \/ StartJob
    \/ BatchDone
    \/ Catch
    \/ Return
    \/ Extract
    \/ Discover
    \/ Transcode
    \/ Cleanup

Spec == Init /\ [][Next]_vars

\* the steps the program takes on its own: every call of unrar and ffmpeg
\* blocks until the tool exits, the menu waits for the user
BatchStep ==
    \/ StartJob
    \/ BatchDone
    \/ Catch
    \/ Return
    \/ Extract
    \/ Discover
    \/ Transcode
    \/ Cleanup

\* the session when every external tool invocation terminates
SpecLive == Init /\ [][Next]_vars /\ WF_vars(BatchStep)

----------------------------------------------------------------------------
(* The name derivation on its own: every base name built from a few tokens *)
(* is derived under every preset, and the result is derived again, as it   *)
(* is when an archive carries the name of an earlier output                *)

Tokens == {S_FLAC, S_flac, <<"F","l","a","c">>, S_16, <<"1">>, <<"6">>,
           <<" ">>, <<"x">>, <<"f","l">>, <<"a","c">>}

RECURSIVE Concat(_)
Concat(ts) == IF ts = <<>> THEN <<>> ELSE Head(ts) \o Concat(Tail(ts))

BaseNames ==
    {Concat(ts) : ts \in UNION {[1..n -> Tokens] : n \in 0..MaxTokens}}

InitNaming ==
    /\ input_directory = "./"
    /\ output_directory = "./"
    /\ encoding_preset \in {presets[c] : c \in DOMAIN presets}
    /\ choice = ""
    /\ pc = "naming"
    /\ console = ""
    /\ dirs = InitialDirs
    /\ subdirs = {}
    /\ mp3s = {}
    /\ temp = [w \in Workspaces |-> NoDir]
    /\ rar_files = <<>>
    /\ idx = 0
    /\ flac_files = <<>>
    /\ fidx = 0
    /\ handed = <<>>
    /\ failed = {}
    /\ jobTrace = <<>>
    /\ rar_name \in BaseNames
    /\ output_dir_name = <<>>
    /\ rederived = <<>>
    /\ runs = 0

\* line 42 applied to the base name
Derive ==
    /\ pc = "naming"
    /\ output_dir_name' = DeriveName(rar_name, encoding_preset)
    /\ pc' = "derived"
    /\ UNCHANGED <<config, choice, console, filesystem, batch, flac_files,
                   fidx, jobTrace, rar_name, rederived, runs>>

\* line 42 applied to its own output
Rederive ==
    /\ pc = "derived"
    /\ rederived' = DeriveName(output_dir_name, encoding_preset)
    /\ pc' = "rederived"
    /\ UNCHANGED <<config, choice, console, filesystem, batch, job, runs>>

NextNaming == Derive \/ Rederive

SpecNaming == InitNaming /\ [][NextNaming]_vars

----------------------------------------------------------------------------
(* Properties *)

JobPcs == {"extract", "discover", "transcode", "raised", "returned"}

IsTranscode(e) == e.step = "transcode"

\* the ffmpeg invocations of the job in hand, in order
Transcodes == SelectSeq(jobTrace, IsTranscode)

StepsDone == {jobTrace[i].step : i \in DOMAIN jobTrace}

\* the workspace of the i-th archive of the batch
WorkspaceOf(i) == <<input_directory, Stem(rar_files[i].name)>>

N_album_out == <<"A","r","t","i","s","t"," ","-"," ","A","l","b","u","m",
                 " ","[","M","P","3","-","v","2","]">>

N_track_mp3 == <<"0","1"," ","T","r","a","c","k",".","m","p","3">>

\* C1: whatever archives fail, the archives handed to process_single_rar
\* are exactly the archives enumerated at the start of the run, each once
\* and in order: while a job runs the first idx of them, between jobs the
\* first idx - 1, and all of them when the loop is over.
C1_EveryArchiveHandedOnce ==
    /\ pc \in JobPcs => /\ idx <= Len(rar_files)
                        /\ handed = SubSeq(rar_files, 1, idx)
    /\ pc = "loop" => /\ idx <= Len(rar_files) + 1
                      /\ handed = SubSeq(rar_files, 1, idx - 1)

\* a batch of two archives is over, the first archive failed and the
\* second was still handed over
C1_Witness ==
    /\ pc = "loop"
    /\ Len(rar_files) = 2
    /\ idx = 3
    /\ failed = {1}
    /\ handed = rar_files

\* C2: when the next archive starts, and when the batch ends, no workspace
\* of an earlier job of this batch exists.
C2_NoWorkspaceLeft ==
    pc = "loop" => \A i \in 1..(idx - 1) : ~temp[WorkspaceOf(i)].exists

\* C3: a run over an input directory without qualifying archives leaves the
\* filesystem as it was.
C3_EmptyRunChangesNothing ==
    [][(/\ pc = "menu"
        /\ runs' = runs + 1
        /\ Qualifying(Listing(input_directory, temp, subdirs, mp3s)) = {})
       => UNCHANGED filesystem]_vars

\* C4: no failure inside the batch runner ends the session: a run always
\* comes back to the menu, the session is never left through an uncaught
\* exception.
C4_RunReturnsToMenu == pc # "crashed"

\* C5: a job that returns normally after discovering N >= 1 audio files has
\* invoked the transcoder exactly N times, once per discovered file in
\* discovery order, and its workspace is gone.
C5_OneTranscodePerFile ==
    (pc = "returned" /\ Len(flac_files) >= 1) =>
        /\ Len(Transcodes) = Len(flac_files)
        /\ \A i \in 1..Len(flac_files) :
              Transcodes[i].arg.input = flac_files[i]
        /\ ~temp[WorkspaceKey].exists

\* a job over two audio files has returned
C5_Witness ==
    /\ pc = "returned"
    /\ Len(flac_files) = 2
    /\ Len(Transcodes) = 2
    /\ ~temp[WorkspaceKey].exists

\* C6: when the transcode of the k-th file fails, exactly k invocations
\* have occurred, the failure leaves process_single_rar, no later step
\* of that job runs, and the batch runner goes on to the next archive.
C6_TranscodeFailureAbortsJob ==
    /\ [](console = "conversion_failed" =>
            /\ pc = "raised"
            /\ fidx \in 1..Len(flac_files)
            /\ Len(Transcodes) = fidx
            /\ Transcodes[fidx].arg.input = flac_files[fidx])
    /\ [][pc = "raised" =>
            /\ pc' = "loop"
            /\ idx' = idx + 1
            /\ mp3s' = mp3s
            /\ jobTrace' = <<>>]_vars
    /\ [][(pc = "loop" /\ idx <= Len(rar_files)) =>
            handed' = Append(handed, rar_files[idx])]_vars

\* the first of two transcodes has failed and another archive is waiting
C6_Witness ==
    /\ pc = "raised"
    /\ console = "conversion_failed"
    /\ fidx = 1
    /\ Len(flac_files) = 2
    /\ idx < Len(rar_files)

\* C7: a job whose extraction succeeded and whose workspace holds no audio
\* file returns normally in its discovery step, without any transcode,
\* without creating the output subdirectory, and with the workspace removed.
C7_NoAudioNoOutput ==
    /\ [][(pc = "discover" /\ Discovered(temp[WorkspaceKey].files) = {}) =>
            /\ pc' = "returned"
            /\ subdirs' = subdirs
            /\ mp3s' = mp3s
            /\ ~temp'[WorkspaceKey].exists]_vars
    /\ []((pc = "returned" /\ Len(flac_files) = 0) =>
            /\ Len(Transcodes) = 0
            /\ "mkdir_out" \notin StepsDone
            /\ ~temp[WorkspaceKey].exists)

\* the archive that holds no .flac file has been extracted and has returned
C7_Witness ==
    /\ pc = "returned"
    /\ rar_name = Stem(N_b_Rar)
    /\ "extract" \in StepsDone
    /\ Len(flac_files) = 0
    /\ <<output_directory, output_dir_name>> \notin subdirs

\* C8: an invalid menu key and a rejected input directory leave the three
\* settings as they were and return to the menu; choice 1 never changes
\* the output directory or the preset, and changes the input directory
\* only to an existing directory.
C8_InputErrorsChangeNothing ==
    [][pc = "menu" =>
         /\ choice' \notin {"1", "2", "3", "4", "5"} =>
               (UNCHANGED config /\ pc' = "menu")
         /\ choice' = "1" =>
               /\ pc' = "menu"
               /\ UNCHANGED <<output_directory, encoding_preset>>
               /\ console' = "invalid_dir" => UNCHANGED input_directory
               /\ input_directory' # input_directory =>
                     input_directory' \in dirs]_vars

\* an input directory other than the default was accepted, and a later
\* entry was rejected
C8_Witness ==
    /\ pc = "menu"
    /\ choice = "1"
    /\ console = "invalid_dir"
    /\ input_directory = "music"

\* C9: for the archive "Artist - Album [FLAC 16].rar" and preset V2 the
\* output subdirectory is "Artist - Album [MP3-v2]", the track is transcoded
\* to "01 Track.mp3" in it with -q:a 2, and no workspace is left.
C9_AlbumScenario ==
    (/\ pc = "returned"
     /\ rar_name = Stem(N_album_rar)
     /\ encoding_preset = Preset_V2) =>
        /\ output_dir_name = N_album_out
        /\ Len(Transcodes) = 1
        /\ Transcodes[1].arg.output =
              <<output_directory, N_album_out, N_track_mp3>>
        /\ Transcodes[1].arg.quality_flag = "-q:a"
        /\ Transcodes[1].arg.quality_value = "2"
        /\ ~temp[WorkspaceKey].exists

\* C10 as stated: deriving the derived name again gives the same name
C10_Idempotent ==
    pc = "rederived" => rederived = output_dir_name

\* C10 amended: for a base name that does not contain "16", deriving the
\* derived name again gives the same name.
C10_IdempotentWithout16 ==
    (pc = "rederived" /\ ~Contains(rar_name, S_16)) =>
        rederived = output_dir_name

\* a name with two markers and surrounding blanks was derived twice
C10_Witness ==
    /\ pc = "rederived"
    /\ ~Contains(rar_name, S_16)
    /\ rar_name = <<" ">> \o S_FLAC \o S_flac
    /\ output_dir_name # rar_name
    /\ rederived = output_dir_name

\* C11: the marker substitution is case-insensitive: a base name that holds
\* the marker "flac" in any letter case is derived to a name that holds the
\* preset's name in its place.
C11_MarkerAnyCase ==
    (pc = "derived" /\ Contains(Lower(rar_name), S_flac)) =>
        Contains(output_dir_name, encoding_preset.name)

\* the place of a step in the order of process_single_rar
Rank(step) ==
    CASE step = "mkdir_temp" -> 1
      [] step = "extract" -> 2
      [] step = "discover" -> 3
      [] step = "mkdir_out" -> 4
      [] step = "transcode" -> 5
      [] step = "rmtree" -> 6
      [] OTHER -> 7

\* C12: the steps of a job occur in the order workspace creation,
\* extraction, audio discovery, output-subdirectory creation, transcodes,
\* workspace removal, and nothing follows a raise; a job whose extraction
\* failed has discovered nothing, created no output subdirectory and
\* transcoded nothing, and is over; every transcode finds its job's output
\* subdirectory and workspace in place.
C12_StepOrder ==
    /\ [](pc \in JobPcs =>
            /\ \A i, j \in DOMAIN jobTrace :
                  i < j =>
                     \/ Rank(jobTrace[i].step) < Rank(jobTrace[j].step)
                     \/ /\ jobTrace[i].step = "transcode"
                        /\ jobTrace[j].step = "transcode"
            /\ jobTrace[1].step \in {"mkdir_temp", "raise"}
            /\ pc \in {"extract", "discover", "transcode"} =>
                  temp[WorkspaceKey].exists
            /\ console = "extraction_failed" =>
                  /\ pc = "raised"
                  /\ StepsDone \cap {"discover", "mkdir_out", "transcode"} = {}
            /\ Len(Transcodes) > 0 =>
                  /\ "mkdir_out" \in StepsDone
                  /\ <<output_directory, output_dir_name>> \in subdirs)
    /\ [][console = "extraction_failed" =>
            /\ pc' = "loop"
            /\ UNCHANGED <<subdirs, mp3s>>]_vars
    /\ [][Len(Transcodes') > Len(Transcodes) =>
            /\ <<output_directory, output_dir_name>> \in subdirs
            /\ temp[WorkspaceKey].exists]_vars

\* a job has gone through all six steps, with two transcodes
C12_Witness ==
    /\ pc = "returned"
    /\ [i \in DOMAIN jobTrace |-> jobTrace[i].step] =
          <<"mkdir_temp", "extract", "discover", "mkdir_out",
            "transcode", "transcode", "rmtree">>

\* C13: when every tool invocation terminates, a run over at least one
\* archive comes to its end and reports overall completion; the report is
\* made in the step that ends the run, from the exhausted loop, when every
\* enumerated archive has been handed over, whatever number of them failed.
C13_CompletionReported ==
    /\ (pc \in JobPcs \cup {"loop"}) ~>
          (pc = "menu" /\ console = "all_processed")
    /\ [][console' = "all_processed" =>
            /\ pc = "loop"
            /\ pc' = "menu"
            /\ Len(rar_files) >= 1
            /\ idx = Len(rar_files) + 1
            /\ handed = rar_files]_vars
    /\ [](pc \in JobPcs \cup {"loop"} => console # "all_processed")

\* completion was reported after a run in which both archives of the
\* directory failed (both workspaces are still there)
C13_Witness ==
    /\ pc = "menu"
    /\ console = "all_processed"
    /\ input_directory = "music"
    /\ runs = 1
    /\ temp[<<"music", Stem(N_album_rar)>>].exists
    /\ temp[<<"music", Stem(N_b_Rar)>>].exists

\* the three canonical presets, written out
Canonical ==
    {[name |-> <<"M","P","3","-","v","0">>,
      quality_flag |-> "-q:a", quality_value |-> "0"],
     [name |-> <<"M","P","3","-","v","2">>,
      quality_flag |-> "-q:a", quality_value |-> "2"],
     [name |-> <<"M","P","3","-","3","2","0","k","b","p","s","-","C","B","R">>,
      quality_flag |-> "-b:a", quality_value |-> "320k"]}

\* C14: the active preset is always one of the three canonical presets;
\* a round of the selector's prompt either returns to the menu with a
\* canonical preset or, on an invalid key, prompts again and changes no
\* setting; the active preset changes only when the selector returns.
C14_PresetCanonical ==
    /\ [](encoding_preset \in Canonical)
    /\ [][pc = "preset" =>
            \/ /\ pc' = "menu"
               /\ encoding_preset' \in Canonical
               /\ UNCHANGED <<input_directory, output_directory, filesystem>>
            \/ /\ pc' = "preset"
               /\ console' = "invalid_preset"
               /\ UNCHANGED <<config, filesystem>>]_vars
    /\ [][console' = "invalid_preset" =>
            (pc' = "preset" /\ UNCHANGED <<config, filesystem>>)]_vars
    /\ [][encoding_preset' # encoding_preset =>
            (pc = "preset" /\ pc' = "menu")]_vars

\* the selector has returned the third preset to the menu
C14_Witness ==
    /\ pc = "menu"
    /\ choice = "3"
    /\ encoding_preset.quality_flag = "-b:a"
    /\ encoding_preset.quality_value = "320k"

\* C15: the audio files a job transcodes are exactly the audio files of
\* that job's own archive.
C15_OwnFilesOnly ==
    /\ pc = "transcode" =>
          {flac_files[i] : i \in DOMAIN flac_files} =
             Discovered(Content(input_directory, rar_files[idx].name))
    /\ pc \in JobPcs =>
          \A i \in DOMAIN Transcodes :
             Transcodes[i].arg.input \in
                Content(input_directory, rar_files[idx].name)

\* C16: the transcodes of one job write to pairwise distinct output paths,
\* so a job that returns after N transcodes leaves N MP3 files of its own
\* in its output subdirectory.
C16_DistinctOutputs ==
    (pc = "returned" /\ Len(flac_files) >= 1) =>
        LET outputs == {Transcodes[i].arg.output : i \in DOMAIN Transcodes}
        IN  /\ \A i, j \in DOMAIN Transcodes :
                  i # j => Transcodes[i].arg.output # Transcodes[j].arg.output
            /\ Cardinality(outputs) = Len(flac_files)
            /\ outputs \subseteq mp3s

====
